---------------------------- MODULE Spec2Model ----------------------------
(***************************************************************************)
(* Peep: the alert engine (package alerts), its notification fan-out and   *)
(* the automatic retention manager (package storage), over one embedded    *)
(* SQLite store.                                                           *)
(*                                                                         *)
(* The store's tables are sequences (a row's index is its AUTOINCREMENT    *)
(* id) or sets of rows; the engine's caches are functions from id to the   *)
(* cached struct.  Every store write that the code issues can fail (I/O    *)
(* error, "database is locked"); whether the failure changes control flow  *)
(* is taken from the code: some writes return the error, some drop it.     *)
(***************************************************************************)
EXTENDS Integers, Sequences, FiniteSets, TLC

(***************************************************************************)
(* Bounds of the model.                                                    *)
(***************************************************************************)
MaxRules == 2
MaxChannels == 2
MaxAttempts == 2
MaxCount == 1
MaxThreshold == 1
MaxTime == 3
TicksPerSecond == 2
MaxLogRows == 3
MaxLogTime == 4
MaxWords == 2
MaxWindowLen == 3
MaxRetention == 2
MaxLoops == 2
MaxWindowTime == 6
MaxWindowRows == 2
MaxLines == 2

(***************************************************************************)
(* Values.                                                                 *)
(***************************************************************************)
\* A NULL DATETIME column (last_check, last_alert before the first write).
NULL == 0
\* The zero value of a Go time.Time field that was never assigned.
ZeroTime == 0

\* A rule's SQL text is told by what QueryRow(...).Scan(&count) makes of it:
\* "scalar" returns one integer column, "bad" is rejected by the store or
\* returns something Scan cannot put in an int.  The counts a query returns:
Counts == 0..MaxCount

\* The config keys a channel kind cannot work without.
RequiredKeys(type) ==
    CASE type = "slack" -> {"webhook_url"}
      [] type = "email" -> {"smtp_host", "username", "password", "from_email", "to_emails"}
      [] type = "shell" -> {"script_path"}
      [] OTHER -> {}

\* CURRENT_TIMESTAMP: SQLite's clock read, at a resolution of one second.
CurrentTimestamp(t) == t - (t % TicksPerSecond)

\* getDatabaseSizeMB's estimate of one log row, in bytes.
BytesPerLog == 350

\* DefaultRetentionConfig's CheckInterval, in minutes.
DefaultCheckInterval == 10

\* The retention policies the manager is constructed with: MaxLogs in rows,
\* MaxAge in seconds, the size limit in bytes (MaxSizeMB * 1024 * 1024).
RetentionConfigs ==
    [MaxLogs : 0..MaxRetention, MaxAge : 0..MaxRetention,
     MaxSizeBytes : {0, BytesPerLog}, Enabled : {TRUE}]
DefaultRetentionConfig ==
    [MaxLogs |-> MaxRetention, MaxAge |-> MaxRetention, MaxSizeBytes |-> 0,
     Enabled |-> TRUE]

VARIABLES
    alert_rules,            \* table: Seq of rows, index = id
    alert_instances,        \* table: Seq of rows, index = id
    notification_channels,  \* table: Seq of rows, index = id
    alert_notifications,    \* table: Seq of rows, index = id
    engine,                 \* "none" | "up": whether an Engine value exists
    rules,                  \* Engine.rules: id -> AlertRule
    channels,               \* Engine.channels: id -> NotificationChannel
    isRunning,              \* Engine.isRunning
    loops,                  \* monitorLoop goroutines that have not returned
    pending,                \* rule ids checkAlerts' range loop has yet to visit
    stopping,               \* a caller of Stop is blocked on its send to stopChan
    now,                    \* the wall clock, in ticks
    call,                   \* the last operation: its inputs, what it returned and
                            \* the transports it invoked
    logs,                   \* table logs: set of [id, timestamp]
    nextLogId,              \* logs' AUTOINCREMENT counter
    sweeps,                 \* where each goroutine stands in a sweep
    config,                 \* AutoRetentionManager.config
    arm                     \* AutoRetentionManager: its ticker, stop channel and task

storeVars == <<alert_rules, alert_instances, notification_channels, alert_notifications>>
engineVars == <<engine, rules, channels, isRunning, loops, pending, stopping>>
\* The goroutines that can run a sweep: the manager's ticker loop and a
\* caller of TriggerCleanupIfNeeded.
Tasks == {"ticker", "caller"}

\* No goroutine is in a sweep.
Idle == [p \in Tasks |-> "idle"]

\* Before NewAutoRetentionManager.
NoManager ==
    [ticker |-> "nil", interval |-> 0, C |-> 0, async |-> TRUE, stop |-> "none",
     task |-> "none", panic |-> ""]

retentionVars == <<logs, nextLogId, config, arm, sweeps>>
vars == <<storeVars, engineVars, retentionVars, now, call>>


(***************************************************************************)
(* The store as the engine sees it, and the engine's caches, passed        *)
(* through the engine's methods as one value.                              *)
(***************************************************************************)
World ==
    [alert_rules |-> alert_rules, alert_instances |-> alert_instances,
     notification_channels |-> notification_channels,
     alert_notifications |-> alert_notifications,
     rules |-> rules, channels |-> channels, dispatched |-> {}]

\* The AlertRule a caller hands to AddRule.
NewRule(name, query, threshold, enabled) ==
    [ID |-> 0, Name |-> name, Query |-> query, Threshold |-> threshold,
     Enabled |-> enabled, CreatedAt |-> ZeroTime, LastCheck |-> ZeroTime,
     LastAlert |-> ZeroTime]

\* The NotificationChannel a caller hands to AddNotificationChannel.
NewChannel(name, type, cfg, enabled) ==
    [ID |-> 0, Name |-> name, Type |-> type, Config |-> cfg, Enabled |-> enabled]

\* The rules callers add: a counting rule, one whose SQL the store does not
\* accept, and one added disabled.
RuleInputs ==
    {NewRule("errors", "scalar", MaxThreshold, TRUE),
     NewRule("broken", "bad", 1, TRUE),
     NewRule("muted", "scalar", 1, FALSE)}

\* The channels callers add: a complete config, incomplete ones (one of them
\* on a disabled channel), and one that takes the default channel's name.
ChannelInputs ==
    {NewChannel("ops", "slack", RequiredKeys("slack"), TRUE),
     NewChannel("mail", "email", {"smtp_host", "username"}, FALSE),
     NewChannel("hook", "shell", {}, TRUE),
     NewChannel("Desktop Notifications", "desktop", {}, TRUE)}

\* json.Marshal / json.Unmarshal of a map[string]string (its keys stand for it).
jsonMarshal(cfg) == [object |-> cfg]
jsonUnmarshal(text) == text.object

\* INSERT INTO alert_rules: name is UNIQUE; created_at, last_check and
\* last_alert take their column defaults.
InsertRuleAccepted(w, rule, storeOk) ==
    storeOk /\ \A i \in 1..Len(w.alert_rules) : w.alert_rules[i].name # rule.Name

\* (variant: the rule is cached whether or not the INSERT was accepted)
AddRuleCachedFirst(w, rule, storeOk, t) ==
    LET id == Len(w.alert_rules) + 1
        row == [name |-> rule.Name, query |-> rule.Query,
                threshold |-> rule.Threshold, enabled |-> rule.Enabled,
                created_at |-> CurrentTimestamp(t),
                last_check |-> NULL, last_alert |-> NULL]
        cached == [w EXCEPT !.rules = (id :> [rule EXCEPT !.ID = id, !.CreatedAt = t]) @@ @]
    IN IF ~InsertRuleAccepted(w, rule, storeOk)
       THEN [w |-> cached, err |-> TRUE, id |-> 0]
       ELSE [w |-> [cached EXCEPT !.alert_rules = Append(@, row)], err |-> FALSE, id |-> id]

AddRule(w, rule, storeOk, t) ==
    IF ~InsertRuleAccepted(w, rule, storeOk)
    THEN [w |-> w, err |-> TRUE, id |-> 0]
    ELSE LET id == Len(w.alert_rules) + 1
             row == [name |-> rule.Name, query |-> rule.Query,
                     threshold |-> rule.Threshold, enabled |-> rule.Enabled,
                     created_at |-> CurrentTimestamp(t),
                     last_check |-> NULL, last_alert |-> NULL]
         IN [w |-> [w EXCEPT !.alert_rules = Append(@, row),
                             !.rules = (id :> [rule EXCEPT !.ID = id, !.CreatedAt = t]) @@ @],
             err |-> FALSE, id |-> id]

\* INSERT INTO notification_channels: name is UNIQUE.
InsertChannelAccepted(w, channel, storeOk) ==
    storeOk /\ \A i \in 1..Len(w.notification_channels) :
                   w.notification_channels[i].name # channel.Name

AddNotificationChannel(w, channel, storeOk) ==
    IF ~InsertChannelAccepted(w, channel, storeOk)
    THEN [w |-> w, err |-> TRUE, id |-> 0]
    ELSE LET id == Len(w.notification_channels) + 1
             row == [name |-> channel.Name, type |-> channel.Type,
                     config |-> jsonMarshal(channel.Config),
                     enabled |-> channel.Enabled]
         IN [w |-> [w EXCEPT !.notification_channels = Append(@, row),
                             !.channels = (id :> [channel EXCEPT !.ID = id]) @@ @],
             err |-> FALSE, id |-> id]

loadRules(table) ==
    [id \in 1..Len(table) |->
        [ID |-> id, Name |-> table[id].name, Query |-> table[id].query,
         Threshold |-> table[id].threshold, Enabled |-> table[id].enabled,
         CreatedAt |-> table[id].created_at,
         LastCheck |-> IF table[id].last_check # NULL THEN table[id].last_check ELSE ZeroTime,
         LastAlert |-> IF table[id].last_alert # NULL THEN table[id].last_alert ELSE ZeroTime]]

loadChannels(table) ==
    [id \in 1..Len(table) |->
        [ID |-> id, Name |-> table[id].name, Type |-> table[id].type,
         Config |-> jsonUnmarshal(table[id].config), Enabled |-> table[id].enabled]]

\* (variant: the literal without Enabled: true)
defaultChannelDisabled == NewChannel("Desktop Notifications", "desktop", {}, FALSE)

\* The channel NewEngine creates when it loaded none.
defaultChannel == NewChannel("Desktop Notifications", "desktop", {}, TRUE)

\* (variant: the tables are dropped and created afresh)
createTablesAfresh(w) ==
    [w EXCEPT !.alert_rules = <<>>, !.alert_instances = <<>>,
              !.notification_channels = <<>>, !.alert_notifications = <<>>]

\* createTables: every statement is CREATE TABLE IF NOT EXISTS, a table that
\* exists keeps its rows.
createTables(w) == w

\* NewEngine: loadOk is the outcome of createTables/loadRules/loadChannels,
\* insertOk that of the default channel's INSERT.
NewEngine(w, loadOk, insertOk) ==
    IF ~loadOk
    THEN [w |-> w, err |-> TRUE]
    ELSE LET created == createTables(w)
             loaded == [created EXCEPT !.rules = loadRules(created.alert_rules),
                                       !.channels = loadChannels(created.notification_channels)]
         IN IF DOMAIN loaded.channels = {}
            THEN LET added == AddNotificationChannel(loaded, defaultChannel, insertOk)
                 IN IF added.err THEN [w |-> w, err |-> TRUE]
                                 ELSE [w |-> added.w, err |-> FALSE]
            ELSE [w |-> loaded, err |-> FALSE]


(***************************************************************************)
(* Evaluation and firing.                                                  *)
(***************************************************************************)
\* What QueryRow(timeQuery).Scan(&count) can give for a rule: an error
\* always (the store may fail), a count when the query yields one integer.
QueryResults(rule) ==
    {[err |-> TRUE, count |-> 0]}
    \cup (IF rule.Query = "scalar" THEN {[err |-> FALSE, count |-> c] : c \in Counts} ELSE {})

\* (variant: the comparison strict)
ThresholdExceededStrict(count, threshold) == count > threshold

\* (variant: the comparison one short of the threshold)
ThresholdExceededOffByOne(count, threshold) == count >= threshold - 1

\* evaluateRule's comparison of the count with the rule's threshold.
ThresholdExceeded(count, threshold) == count >= threshold

\* The instant fireAlert stamps on the instance it builds.
FiredAt(t) == t

updateRuleLastCheck(w, r, storeOk) ==
    IF storeOk THEN [w EXCEPT !.alert_rules[r].last_check = w.rules[r].LastCheck] ELSE w

updateRuleLastAlert(w, r, storeOk) ==
    IF storeOk THEN [w EXCEPT !.alert_rules[r].last_alert = w.rules[r].LastAlert] ELSE w

\* (variant: the new row lands before the rows already there)
saveAlertInstanceOutOfOrder(w, instance, storeOk) ==
    IF storeOk
    THEN [w |-> [w EXCEPT !.alert_instances = <<instance>> \o @],
          id |-> Len(w.alert_instances) + 1]
    ELSE [w |-> w, id |-> 0]

\* INSERT INTO alert_instances; the new row's id, or 0 with the error.
saveAlertInstance(w, instance, storeOk) ==
    IF storeOk
    THEN [w |-> [w EXCEPT !.alert_instances = Append(@, instance)],
          id |-> Len(w.alert_instances) + 1]
    ELSE [w |-> w, id |-> 0]

\* Whether the transport of a channel can report success at all: an unknown
\* type, a slack channel without webhook_url and a shell channel without
\* script_path return an error before anything is sent.
CanSucceed(channel) ==
    /\ channel.Type \in {"desktop", "slack", "email", "shell"}
    /\ channel.Type \in {"slack", "shell"} => RequiredKeys(channel.Type) \subseteq channel.Config

\* (variant: the two ids bound to each other's column)
logNotificationSwapped(w, alertID, channelID, success, storeOk) ==
    IF storeOk
    THEN [w EXCEPT !.alert_notifications =
              Append(@, [alert_id |-> channelID, channel_id |-> alertID, success |-> success])]
    ELSE w

\* INSERT INTO alert_notifications; the error of the INSERT is dropped.
logNotification(w, alertID, channelID, success, storeOk) ==
    IF storeOk
    THEN [w EXCEPT !.alert_notifications =
              Append(@, [alert_id |-> alertID, channel_id |-> channelID, success |-> success])]
    ELSE w

\* sendNotification: one transport call (sent: what the transport reported),
\* then the audit row.
sendNotification(w, alertID, c, sent, storeOk) ==
    LET ok == sent /\ CanSucceed(w.channels[c])
        called == [w EXCEPT !.dispatched = @ \cup {[alert |-> alertID, channel |-> c, ok |-> ok]}]
    IN logNotification(called, alertID, c, ok, storeOk)

\* (variant: the loop ends at the first transport that fails)
RECURSIVE NotifyChannelsStopOnError(_, _, _, _, _)
NotifyChannelsStopOnError(w, alertID, order, sent, auditOk) ==
    IF order = <<>> THEN w
    ELSE LET c == Head(order)
             after == sendNotification(w, alertID, c, sent[c], auditOk[c])
         IN IF sent[c] /\ CanSucceed(w.channels[c])
            THEN NotifyChannelsStopOnError(after, alertID, Tail(order), sent, auditOk)
            ELSE after

\* fireAlert's loop over the enabled channels, in the order the map yields them.
RECURSIVE NotifyChannels(_, _, _, _, _)
NotifyChannels(w, alertID, order, sent, auditOk) ==
    IF order = <<>> THEN w
    ELSE LET c == Head(order)
         IN NotifyChannels(sendNotification(w, alertID, c, sent[c], auditOk[c]),
                           alertID, Tail(order), sent, auditOk)

EnabledChannels(w) == {c \in DOMAIN w.channels : w.channels[c].Enabled}

\* (variant: nothing is fired within a second of the rule's last alert)
fireAlertWithCooldown(w, r, count, t, in) ==
    LET rule == w.rules[r]
        instance == [rule_id |-> rule.ID, rule_name |-> rule.Name, count |-> count,
                     threshold |-> rule.Threshold, query |-> rule.Query,
                     fired_at |-> FiredAt(t)]
        saved == saveAlertInstance(w, instance, in.wInst)
    IN IF rule.LastAlert # ZeroTime /\ t - rule.LastAlert < TicksPerSecond
       THEN [w |-> w, err |-> FALSE, alert |-> 0]
       ELSE IF saved.id = 0
       THEN [w |-> w, err |-> TRUE, alert |-> 0]
       ELSE LET marked == [saved.w EXCEPT !.rules[r].LastAlert = t]
                stored == updateRuleLastAlert(marked, r, in.wAlert)
            IN [w |-> NotifyChannels(stored, saved.id, in.order, in.sent, in.auditOk),
                err |-> FALSE, alert |-> saved.id]

\* (variant: a failed save of the instance is reported but the fire goes on)
fireAlertDespiteError(w, r, count, t, in) ==
    LET rule == w.rules[r]
        instance == [rule_id |-> rule.ID, rule_name |-> rule.Name, count |-> count,
                     threshold |-> rule.Threshold, query |-> rule.Query,
                     fired_at |-> FiredAt(t)]
        saved == saveAlertInstance(w, instance, in.wInst)
        marked == [saved.w EXCEPT !.rules[r].LastAlert = t]
        stored == updateRuleLastAlert(marked, r, in.wAlert)
    IN [w |-> NotifyChannels(stored, saved.id, in.order, in.sent, in.auditOk),
        err |-> saved.id = 0, alert |-> saved.id]

\* fireAlert(rule, count) at time t, with the outcomes in of its store writes
\* and transports.
fireAlert(w, r, count, t, in) ==
    LET rule == w.rules[r]
        instance == [rule_id |-> rule.ID, rule_name |-> rule.Name, count |-> count,
                     threshold |-> rule.Threshold, query |-> rule.Query,
                     fired_at |-> FiredAt(t)]
        saved == saveAlertInstance(w, instance, in.wInst)
    IN IF saved.id = 0
       THEN [w |-> w, err |-> TRUE, alert |-> 0]
       ELSE LET marked == [saved.w EXCEPT !.rules[r].LastAlert = t]
                stored == updateRuleLastAlert(marked, r, in.wAlert)
            IN [w |-> NotifyChannels(stored, saved.id, in.order, in.sent, in.auditOk),
                err |-> FALSE, alert |-> saved.id]

\* evaluateRule(rule) at time t.
evaluateRule(w, r, t, in) ==
    IF in.res.err
    THEN [w |-> w, err |-> TRUE, alert |-> 0]
    ELSE LET checked == [w EXCEPT !.rules[r].LastCheck = t]
             stored == updateRuleLastCheck(checked, r, in.wCheck)
         IN IF ThresholdExceeded(in.res.count, w.rules[r].Threshold)
            THEN LET fired == fireAlert(stored, r, in.res.count, t, in)
                 IN [w |-> fired.w, err |-> fired.err, alert |-> fired.alert]
            ELSE [w |-> stored, err |-> FALSE, alert |-> 0]

\* The orders in which a range over a Go map can yield the keys in S.
Orders(S) ==
    {o \in [1..Cardinality(S) -> S] : \A i, j \in 1..Cardinality(S) : i # j => o[i] # o[j]}

\* The outcomes of the store writes of an evaluation that fires over the
\* channels E: all succeed, or one of them fails.
WriteOutcomes(E) ==
    LET none == [c \in E |-> TRUE]
        ok == [wCheck |-> TRUE, wAlert |-> TRUE, auditOk |-> none]
    IN {ok, [ok EXCEPT !.wCheck = FALSE], [ok EXCEPT !.wAlert = FALSE]}
       \cup {[ok EXCEPT !.auditOk[c] = FALSE] : c \in E}

\* The outcomes an evaluation of rule r can meet: the query's result, and,
\* as far as the evaluation gets, those of its writes and transports.
EvalInputs(w, r) ==
    LET E == EnabledChannels(w)
        none == [c \in E |-> TRUE]
        first == CHOOSE o \in Orders(E) : TRUE
        quiet(res, wCheck) ==
            [res |-> res, wCheck |-> wCheck, wInst |-> FALSE, wAlert |-> TRUE,
             order |-> first, sent |-> none, auditOk |-> none]
        counted == {res \in QueryResults(w.rules[r]) : ~res.err}
    IN {quiet(res, TRUE) : res \in QueryResults(w.rules[r]) \ counted}
       \cup {quiet(res, wCheck) : res \in counted, wCheck \in BOOLEAN}
       \cup {[res |-> res, wCheck |-> wr.wCheck, wInst |-> TRUE, wAlert |-> wr.wAlert,
              order |-> order, sent |-> sent, auditOk |-> wr.auditOk] :
                res \in {c \in counted : ThresholdExceeded(c.count, w.rules[r].Threshold)},
                wr \in WriteOutcomes(E), order \in Orders(E), sent \in [E -> BOOLEAN]}


(***************************************************************************)
(* The engine's operations as actions.                                     *)
(***************************************************************************)
Install(w) ==
    /\ alert_rules' = w.alert_rules
    /\ alert_instances' = w.alert_instances
    /\ notification_channels' = w.notification_channels
    /\ alert_notifications' = w.alert_notifications
    /\ rules' = w.rules
    /\ channels' = w.channels

Init ==
    /\ alert_rules = <<>>
    /\ alert_instances = <<>>
    /\ notification_channels = <<>>
    /\ alert_notifications = <<>>
    /\ engine = "none"
    /\ rules = <<>>
    /\ channels = <<>>
    /\ isRunning = FALSE
    /\ loops = 0
    /\ pending = {}
    /\ stopping = FALSE
    /\ now = TicksPerSecond
    /\ call = [op |-> "NewStorage"]
    /\ logs = {}
    /\ nextLogId = 1
    /\ sweeps = Idle
    /\ config = DefaultRetentionConfig
    /\ arm = NoManager

\* A process opens the store and constructs its engine.
DoNewEngine ==
    /\ engine = "none"
    /\ \E loadOk, insertOk \in BOOLEAN :
          LET out == NewEngine(World, loadOk, insertOk)
          IN /\ Install(out.w)
             /\ engine' = IF out.err THEN "none" ELSE "up"
             /\ call' = [op |-> "NewEngine", err |-> out.err,
                         empty |-> notification_channels = <<>>]
    /\ UNCHANGED <<isRunning, loops, pending, stopping, now, retentionVars>>

\* The process that holds the engine ends (alerts start runs until it is
\* interrupted): the Engine value and its caches are gone, the store stays.
ProcessExit ==
    /\ engine = "up"
    /\ engine' = "none"
    /\ rules' = <<>>
    /\ channels' = <<>>
    /\ isRunning' = FALSE
    /\ loops' = 0
    /\ pending' = {}
    /\ stopping' = FALSE
    /\ call' = [op |-> "exit"]
    /\ UNCHANGED <<storeVars, now, retentionVars>>

\* AddRule from a goroutine of its own.  The cache is a plain map: an entry
\* written while checkAlerts ranges over it may or may not be produced by
\* that range.
DoAddRule ==
    /\ engine = "up"
    /\ Len(alert_rules) < MaxRules
    /\ \E rule \in RuleInputs :
          LET out == AddRule(World, rule, TRUE, now)
          IN /\ Install(out.w)
             /\ call' = [op |-> "AddRule", err |-> out.err, id |-> out.id, in |-> rule]
             /\ pending' \in IF pending # {} /\ ~out.err
                              THEN {pending, pending \cup {out.id}} ELSE {pending}
    /\ UNCHANGED <<engine, isRunning, loops, stopping, now, retentionVars>>

DoAddNotificationChannel ==
    /\ engine = "up"
    /\ Len(notification_channels) < MaxChannels
    /\ \E channel \in ChannelInputs :
          LET out == AddNotificationChannel(World, channel, TRUE)
          IN /\ Install(out.w)
             /\ call' = [op |-> "AddNotificationChannel", err |-> out.err,
                         id |-> out.id, in |-> channel]
    /\ UNCHANGED <<engine, isRunning, loops, pending, stopping, now, retentionVars>>

\* (variant: Start without its check of isRunning)
StartProceedsAlways(running) == TRUE

\* Start returns at once when the engine is running already.
StartProceeds(running) == ~running

\* Start: sets isRunning and spawns monitorLoop, unless it returns at once.
Start ==
    /\ engine = "up"
    /\ loops < MaxLoops
    /\ IF StartProceeds(isRunning)
       THEN isRunning' = TRUE /\ loops' = loops + 1
       ELSE UNCHANGED <<isRunning, loops>>
    /\ call' = [op |-> "Start", started |-> StartProceeds(isRunning),
                restart |-> call.op = "stopped"]
    /\ UNCHANGED <<storeVars, engine, rules, channels, pending, stopping, now, retentionVars>>

\* Stop up to its send on stopChan, which has no buffer: the caller blocks
\* until the monitor loop receives.  Stop returns at once when the engine is
\* not running.
Stop ==
    /\ engine = "up"
    /\ ~stopping
    /\ stopping' = isRunning
    /\ call' = [op |-> "Stop", sent |-> isRunning]
    /\ UNCHANGED <<storeVars, engine, rules, channels, isRunning, loops, pending, now, retentionVars>>

\* (variant: a monitor loop without the stopChan case in its select)
StopReceivableNever(p) == FALSE

\* (variant: stopChan with a buffer, the send never waits for the loop)
StopReceivableAnytime(p) == TRUE

\* The monitor loop receives from stopChan only in its select, that is when
\* no checkAlerts is under way.
StopReceivable(p) == p = {}

\* The loop takes the stop signal and returns; Stop goes on to clear
\* isRunning and returns.
StopReceived ==
    /\ engine = "up"
    /\ stopping
    /\ StopReceivable(pending)
    /\ stopping' = FALSE
    /\ isRunning' = FALSE
    /\ loops' = loops - 1
    /\ call' = [op |-> "stopped"]
    /\ UNCHANGED <<storeVars, engine, rules, channels, pending, now, retentionVars>>

\* A tick of the monitor loop: checkAlerts starts its range over the rules.
checkAlerts ==
    /\ engine = "up"
    /\ isRunning
    /\ pending = {}
    /\ (Len(alert_instances) + Cardinality({r \in DOMAIN rules : rules[r].Enabled}))
          * Cardinality(EnabledChannels(World)) <= MaxAttempts
    /\ pending' = DOMAIN rules
    /\ call' = [op |-> "checkAlerts"]
    /\ UNCHANGED <<storeVars, engine, rules, channels, isRunning, loops, stopping, now, retentionVars>>

\* (variant: checkAlerts returns at the first evaluation that fails)
RemainingReturnOnError(p, r, err) == IF err THEN {} ELSE p \ {r}

\* The rules checkAlerts' range still has to visit after rule r: an error of
\* evaluateRule is printed and the range goes on.
Remaining(p, r, err) == p \ {r}

\* (variant: checkAlerts without its check of rule.Enabled)
SkippedNever(rule) == FALSE

\* checkAlerts' `if !rule.Enabled { continue }`.
Skipped(rule) == ~rule.Enabled

\* The range loop visits one more rule: a disabled one is skipped, an
\* enabled one evaluated.
VisitRule ==
    /\ engine = "up"
    /\ \E r \in pending :
          IF Skipped(rules[r])
          THEN /\ call' = [op |-> "skip", id |-> r]
               /\ pending' = Remaining(pending, r, FALSE)
               /\ UNCHANGED <<storeVars, rules, channels>>
          ELSE \E in \in EvalInputs(World, r) :
                  LET out == evaluateRule(World, r, now, in)
                  IN /\ Install(out.w)
                     /\ pending' = Remaining(pending, r, out.err)
                     /\ call' = [op |-> "evaluateRule", id |-> r, err |-> out.err,
                                 alert |-> out.alert, res |-> in.res,
                                 dispatched |-> out.w.dispatched]
    /\ UNCHANGED <<engine, isRunning, loops, stopping, now, retentionVars>>

\* Time passes.
Advance ==
    /\ now < MaxTime
    /\ now' = now + 1
    /\ call' = [op |-> "clock"]
    /\ UNCHANGED <<storeVars, engineVars, retentionVars>>

Next ==
    \/ DoNewEngine
    \/ ProcessExit
    \/ DoAddRule
    \/ DoAddNotificationChannel
    \/ Start
    \/ Stop
    \/ StopReceived
    \/ checkAlerts
    \/ VisitRule
    \/ Advance

Spec == Init /\ [][Next]_vars

\* The rules peep alerts add hands to AddRule: the threshold is the value of
\* its --threshold flag, whatever integer that is.
RuleInputsOfAnyThreshold ==
    {NewRule("errors", "scalar", threshold, TRUE) : threshold \in 0..MaxThreshold}

\* AddRule called by peep alerts add.
DoAddRuleOfAnyThreshold ==
    /\ engine = "up"
    /\ Len(alert_rules) < MaxRules
    /\ \E rule \in RuleInputsOfAnyThreshold :
          LET out == AddRule(World, rule, TRUE, now)
          IN /\ Install(out.w)
             /\ call' = [op |-> "AddRule", err |-> out.err, id |-> out.id, in |-> rule]
             /\ pending' \in IF pending # {} /\ ~out.err
                              THEN {pending, pending \cup {out.id}} ELSE {pending}
    /\ UNCHANGED <<engine, isRunning, loops, stopping, now, retentionVars>>

\* The engine with rules of any threshold.
NextThresholds ==
    \/ DoNewEngine
    \/ DoAddRuleOfAnyThreshold
    \/ Start
    \/ checkAlerts
    \/ VisitRule
    \/ Advance

SpecThresholds == Init /\ [][NextThresholds]_vars

\* One process with its engine, started and stopped at will.  Every
\* evaluation under way comes to its end, and the loop's select, which picks
\* at random among the cases that are ready, does not pass over a waiting
\* Stop for ever.
NextStop ==
    \/ DoNewEngine
    \/ DoAddRule
    \/ Start
    \/ Stop
    \/ StopReceived
    \/ checkAlerts
    \/ VisitRule

SpecStop == Init /\ [][NextStop]_vars /\ WF_vars(VisitRule) /\ SF_vars(StopReceived)


(***************************************************************************)
(* buildTimeQuery.  A string is the sequence of its characters.            *)
(***************************************************************************)
\* strings.ToUpper, on the letters that occur.
ToUpperChar(ch) ==
    CASE ch = "w" -> "W" [] ch = "h" -> "H" [] ch = "e" -> "E" [] ch = "r" -> "R"
      [] ch = "n" -> "N" [] ch = "o" -> "O" [] ch = "l" -> "L" [] ch = "g" -> "G"
      [] ch = "s" -> "S" [] OTHER -> ch

ToUpper(str) == [i \in 1..Len(str) |-> ToUpperChar(str[i])]

\* strings.Contains
Contains(str, sub) ==
    \E i \in 1..(Len(str) - Len(sub) + 1) : SubSeq(str, i, i + Len(sub) - 1) = sub

\* The literal "WHERE".
WHERE == <<"W", "H", "E", "R", "E">>

containsWhere(query) == Contains(ToUpper(query), WHERE)

\* The words rule queries are made of here.
Words ==
    {<<"l", "o", "g", "s">>,
     <<"W", "H", "E", "R", "E">>, <<"w", "h", "e", "r", "e">>, <<"W", "h", "e", "r", "e">>,
     <<"n", "o", "w", "h", "e", "r", "e">>}

\* The words joined by single spaces.
RECURSIVE Join(_)
Join(ws) == IF Len(ws) = 1 THEN ws[1] ELSE ws[1] \o <<" ">> \o Join(Tail(ws))

\* The characters window strings are made of here.
WindowChars == {"1", "5", "m", "h", "x", "-"}

Windows == UNION {[1..n -> WindowChars] : n \in 0..MaxWindowLen}

DigitValue(ch) == CASE ch = "0" -> 0 [] ch = "1" -> 1 [] ch = "5" -> 5
IsDigit(ch) == ch \in {"0", "1", "5"}

\* time.ParseDuration's unitMap, in seconds, for the units that occur; 0 for
\* a unit it does not have.
UnitSeconds(unit) ==
    CASE unit = <<"s">> -> 1
      [] unit = <<"m">> -> 60
      [] unit = <<"h">> -> 60 * 60
      [] OTHER -> 0

\* ParseDuration's leadingInt: the decimal number str starts with, and the rest.
RECURSIVE leadingInt(_, _)
leadingInt(str, acc) ==
    IF str # <<>> /\ IsDigit(Head(str))
    THEN leadingInt(Tail(str), acc * 10 + DigitValue(Head(str)))
    ELSE [v |-> acc, rest |-> str]

\* The unit str starts with: its characters up to the next digit.
RECURSIVE leadingUnit(_)
leadingUnit(str) ==
    IF str # <<>> /\ ~IsDigit(Head(str)) THEN <<Head(str)>> \o leadingUnit(Tail(str)) ELSE <<>>

\* ParseDuration's loop over the number-unit pairs of str.
RECURSIVE parseTerms(_, _)
parseTerms(str, total) ==
    IF str = <<>> THEN [err |-> FALSE, d |-> total]
    ELSE IF ~IsDigit(Head(str)) THEN [err |-> TRUE, d |-> 0]
    ELSE LET n == leadingInt(str, 0)
             unit == leadingUnit(n.rest)
         IN IF UnitSeconds(unit) = 0 THEN [err |-> TRUE, d |-> 0]
            ELSE parseTerms(SubSeq(n.rest, Len(unit) + 1, Len(n.rest)),
                            total + n.v * UnitSeconds(unit))

\* time.ParseDuration, in whole seconds: an optional sign, then "0" or one
\* or more number-unit pairs.
ParseDuration(str) ==
    LET neg == str # <<>> /\ Head(str) = "-"
        body == IF str # <<>> /\ Head(str) \in {"-", "+"} THEN Tail(str) ELSE str
        terms == parseTerms(body, 0)
    IN IF body = <<"0">> THEN [err |-> FALSE, d |-> 0]
       ELSE IF body = <<>> \/ terms.err THEN [err |-> TRUE, d |-> 0]
       ELSE [err |-> FALSE, d |-> IF neg THEN 0 - terms.d ELSE terms.d]

\* 5 * time.Minute, in seconds.
DefaultWindow == 5 * 60

\* (variant: the duration ParseDuration returns with its error is used)
WindowOfNoDefault(window) == ParseDuration(window).d

\* buildTimeQuery's duration for a window string.
WindowOf(window) ==
    IF ParseDuration(window).err THEN DefaultWindow ELSE ParseDuration(window).d

\* buildTimeQuery at time t: the query, the clause appended to it and the
\* second that clause names.
buildTimeQuery(query, window, t) ==
    [query |-> query,
     clause |-> IF ~containsWhere(query) THEN " WHERE timestamp >= " ELSE " AND timestamp >= ",
     since |-> (t - WindowOf(window) * TicksPerSecond) \div TicksPerSecond]

\* A rule's query and window, and the time of its evaluation.
InitQuery ==
    /\ alert_rules = <<>>
    /\ alert_instances = <<>>
    /\ notification_channels = <<>>
    /\ alert_notifications = <<>>
    /\ engine = "none"
    /\ rules = <<>>
    /\ channels = <<>>
    /\ isRunning = FALSE
    /\ loops = 0
    /\ pending = {}
    /\ stopping = FALSE
    /\ now \in TicksPerSecond..MaxTime
    /\ logs = {}
    /\ nextLogId = 1
    /\ sweeps = Idle
    /\ config = DefaultRetentionConfig
    /\ arm = NoManager
    /\ \E n \in 1..MaxWords : \E ws \in [1..n -> Words] : \E window \in Windows :
          call = [op |-> "rule", words |-> ws, query |-> Join(ws), window |-> window]

\* evaluateRule's first statement.
DoBuildTimeQuery ==
    /\ call.op = "rule"
    /\ call' = [call EXCEPT !.op = "buildTimeQuery"] @@
                    [out |-> buildTimeQuery(call.query, call.window, now)]
    /\ UNCHANGED <<storeVars, engineVars, retentionVars, now>>

NextQuery == DoBuildTimeQuery

SpecQuery == InitQuery /\ [][NextQuery]_vars


(***************************************************************************)
(* The retention manager.                                                  *)
(***************************************************************************)
\* Format("2006-01-02 15:04:05") of an instant: its whole second.
FormatSeconds(t) == t \div TicksPerSecond

\* The cutoff both shouldCleanup and cleanupByAge compute.
Cutoff(cfg, t) == FormatSeconds(t - cfg.MaxAge * TicksPerSecond)

\* timestamp < cutoffStr: SQLite compares the stored text with the cutoff's
\* text, which ends at the seconds; a stored instant within the cutoff's own
\* second is the longer text and compares greater.
OlderThan(row, cutoff) == FormatSeconds(row.timestamp) < cutoff

getDatabaseSizeBytes(L, readOk) == IF readOk THEN Cardinality(L) * BytesPerLog ELSE 0

\* shouldCleanup: in.countOk, in.sizeOk and in.ageOk are the outcomes of its
\* three reads of the store.
shouldCleanup(L, cfg, t, in) ==
    \/ cfg.MaxLogs > 0 /\ in.countOk /\ Cardinality(L) > cfg.MaxLogs
    \/ cfg.MaxSizeBytes > 0 /\ getDatabaseSizeBytes(L, in.sizeOk) > cfg.MaxSizeBytes
    \/ cfg.MaxAge > 0 /\ in.ageOk /\ \E row \in L : OlderThan(row, Cutoff(cfg, t))

\* (variant: ORDER BY id DESC)
NewestRowsById(L, n) ==
    {K \in SUBSET L :
        /\ Cardinality(K) = IF Cardinality(L) < n THEN Cardinality(L) ELSE n
        /\ \A k \in K, d \in L \ K : k.id >= d.id}

\* The sets of rows ORDER BY timestamp DESC LIMIT n can select: rows of equal
\* timestamp come in an order SQLite is free to choose.
NewestRows(L, n) ==
    {K \in SUBSET L :
        /\ Cardinality(K) = IF Cardinality(L) < n THEN Cardinality(L) ELSE n
        /\ \A k \in K, d \in L \ K : k.timestamp >= d.timestamp}

\* (variant: WHERE id IN (...), the NOT dropped)
cleanupByCountInverted(L, cfg) == {L \ K : K \in NewestRows(L, cfg.MaxLogs)}

\* cleanupByCount: the tables it can leave behind.
cleanupByCount(L, cfg) == NewestRows(L, cfg.MaxLogs)

\* cleanupByAge: the table it leaves behind.
cleanupByAge(L, cfg, t) == {row \in L : ~OlderThan(row, Cutoff(cfg, t))}

\* (variant: a size policy that deletes the oldest row)
cleanupByPriorityWithSizePolicy(L, cfg, t, in) ==
    IF ~in.deleteOk THEN {L}
    ELSE IF cfg.MaxLogs > 0 THEN cleanupByCount(L, cfg)
         ELSE IF cfg.MaxAge > 0 THEN {cleanupByAge(L, cfg, t)}
         ELSE IF cfg.MaxSizeBytes > 0 /\ L # {}
              THEN NewestRows(L, Cardinality(L) - 1)
              ELSE {L}

\* performCleanup past its early return: the cleanup its priority order
\* picks, and the tables that can leave behind.
cleanupByPriority(L, cfg, t, in) ==
    IF ~in.deleteOk THEN {L}
    ELSE IF cfg.MaxLogs > 0 THEN cleanupByCount(L, cfg)
         ELSE IF cfg.MaxAge > 0 THEN {cleanupByAge(L, cfg, t)}
         ELSE {L}

\* performCleanup: the tables it can leave behind (in.deleteOk is the outcome
\* of its DELETE).
performCleanup(L, cfg, t, in) ==
    IF ~shouldCleanup(L, cfg, t, in) THEN {L} ELSE cleanupByPriority(L, cfg, t, in)

\* Every statement of a sweep succeeds.
AllOk == [countOk |-> TRUE, sizeOk |-> TRUE, ageOk |-> TRUE, deleteOk |-> TRUE]

\* The outcomes of a sweep's statements: all succeed, or one of them fails.
CleanupInputs ==
    {AllOk, [AllOk EXCEPT !.countOk = FALSE], [AllOk EXCEPT !.sizeOk = FALSE],
     [AllOk EXCEPT !.ageOk = FALSE], [AllOk EXCEPT !.deleteOk = FALSE]}

InitRetention ==
    /\ alert_rules = <<>>
    /\ alert_instances = <<>>
    /\ notification_channels = <<>>
    /\ alert_notifications = <<>>
    /\ engine = "none"
    /\ rules = <<>>
    /\ channels = <<>>
    /\ isRunning = FALSE
    /\ loops = 0
    /\ pending = {}
    /\ stopping = FALSE
    /\ now = TicksPerSecond
    /\ call = [op |-> "NewStorage"]
    /\ logs = {}
    /\ nextLogId = 1
    /\ sweeps = Idle
    /\ config \in RetentionConfigs
    /\ arm = NoManager

\* Storage.InsertLog: the timestamp is the event's, whatever the clock says.
InsertLog ==
    /\ Cardinality(logs) < MaxLogRows
    /\ nextLogId <= MaxLogRows + 1
    /\ \E ts \in 1..MaxLogTime :
          /\ logs' = logs \cup {[id |-> nextLogId, timestamp |-> ts]}
          /\ call' = [op |-> "InsertLog", id |-> nextLogId]
    /\ nextLogId' = nextLogId + 1
    /\ UNCHANGED <<storeVars, engineVars, config, arm, sweeps, now>>

\* The operations that are a sweep.
SweepOps == {"performCleanup", "TriggerCleanupIfNeeded"}

\* What the last operation deleted when it was a sweep, -1 when it was not.
PreviousSweep == IF call.op \in SweepOps THEN call.deleted ELSE -1

\* How the VACUUM of the last operation went when it was a sweep.
PreviousVacuum == IF call.op \in SweepOps THEN call.vacuum ELSE "none"

\* (variant: VACUUM after every sweep)
VacuumAlways(deletedCount) == {"done", "failed"}

\* performCleanup's end: VACUUM when deletedCount > 0, and the ways it can go.
Vacuum(deletedCount) == IF deletedCount > 0 THEN {"done", "failed"} ELSE {"none"}

\* One sweep; a non-zero deletion is followed by VACUUM, whose failure is
\* only logged.
Sweep(op, in, preOk) ==
    \E after \in performCleanup(logs, config, now, in) :
        \E vacuum \in Vacuum(Cardinality(logs) - Cardinality(after)) :
            /\ logs' = after
            /\ call' = [op |-> op, ran |-> shouldCleanup(logs, config, now, in),
                        deleted |-> Cardinality(logs) - Cardinality(after),
                        vacuum |-> vacuum, ok |-> preOk /\ in = AllOk,
                        removed |-> logs \ after, prev |-> PreviousSweep,
                        pvac |-> PreviousVacuum]

\* The manager's ticker fires.
DoPerformCleanup ==
    /\ config.Enabled
    /\ \E in \in CleanupInputs : Sweep("performCleanup", in, TRUE)
    /\ UNCHANGED <<storeVars, engineVars, config, arm, nextLogId, sweeps, now>>

\* TriggerCleanupIfNeeded: shouldCleanup, and when it says so performCleanup,
\* which asks shouldCleanup again.
TriggerCleanupIfNeeded ==
    /\ config.Enabled
    /\ \E pre \in CleanupInputs, in \in CleanupInputs :
          /\ pre = AllOk \/ in = AllOk
          /\ IF shouldCleanup(logs, config, now, pre)
             THEN Sweep("TriggerCleanupIfNeeded", in, pre = AllOk)
             ELSE /\ call' = [op |-> "TriggerCleanupIfNeeded", ran |-> FALSE,
                              deleted |-> 0, vacuum |-> "none", ok |-> pre = AllOk,
                              removed |-> {}, prev |-> PreviousSweep,
                              pvac |-> PreviousVacuum]
                  /\ UNCHANGED logs
    /\ UNCHANGED <<storeVars, engineVars, config, arm, nextLogId, sweeps, now>>

\* Time passes for the retention manager.
Elapse ==
    /\ now < MaxLogTime
    /\ now' = now + 1
    /\ call' = [op |-> "clock"]
    /\ UNCHANGED <<storeVars, engineVars, retentionVars>>

NextRetention ==
    \/ InsertLog
    \/ DoPerformCleanup
    \/ TriggerCleanupIfNeeded
    \/ Elapse

SpecRetention == InitRetention /\ [][NextRetention]_vars

(***************************************************************************)
(* The same manager with its two entry points running as goroutines: each  *)
(* statement of a sweep is a step of its own.  sweeps[p] is "idle",        *)
(* "check" (TriggerCleanupIfNeeded is about to call performCleanup),       *)
(* "delete" (performCleanup is about to run its cleanup) or "vacuum".      *)
(***************************************************************************)
\* performCleanup up to its early return: shouldCleanup on the table as it
\* is now.
EnterPerformCleanup(p) ==
    /\ sweeps' = [sweeps EXCEPT
                     ![p] = IF shouldCleanup(logs, config, now, AllOk)
                            THEN "delete" ELSE "idle"]
    /\ call' = [op |-> "shouldCleanup", task |-> p]
    /\ UNCHANGED <<storeVars, engineVars, logs, nextLogId, config, arm, now>>

\* The ticker loop of Start receives a tick and calls performCleanup.
TickerSweep ==
    /\ config.Enabled
    /\ sweeps["ticker"] = "idle"
    /\ EnterPerformCleanup("ticker")

\* TriggerCleanupIfNeeded up to its call of performCleanup.
TriggerCheck ==
    /\ config.Enabled
    /\ sweeps["caller"] = "idle"
    /\ sweeps' = [sweeps EXCEPT
                     !["caller"] = IF shouldCleanup(logs, config, now, AllOk)
                                   THEN "check" ELSE "idle"]
    /\ call' = [op |-> "TriggerCheck", task |-> "caller"]
    /\ UNCHANGED <<storeVars, engineVars, logs, nextLogId, config, arm, now>>

\* TriggerCleanupIfNeeded calls performCleanup.
TriggerSweep ==
    /\ sweeps["caller"] = "check"
    /\ EnterPerformCleanup("caller")

\* performCleanup's cleanup statement, on the table as it is now.
SweepDelete ==
    \E p \in Tasks :
        /\ sweeps[p] = "delete"
        /\ \E after \in cleanupByPriority(logs, config, now, AllOk) :
              /\ logs' = after
              /\ sweeps' = [sweeps EXCEPT
                               ![p] = IF after = logs THEN "idle" ELSE "vacuum"]
              /\ call' = [op |-> "DELETE", task |-> p,
                          deleted |-> Cardinality(logs) - Cardinality(after)]
        /\ UNCHANGED <<storeVars, engineVars, nextLogId, config, arm, now>>

\* performCleanup's VACUUM.
SweepVacuum ==
    \E p \in Tasks :
        /\ sweeps[p] = "vacuum"
        /\ sweeps' = [sweeps EXCEPT ![p] = "idle"]
        /\ call' = [op |-> "VACUUM", task |-> p]
        /\ UNCHANGED <<storeVars, engineVars, logs, nextLogId, config, arm, now>>

NextSweeps ==
    \/ InsertLog
    \/ TickerSweep
    \/ TriggerCheck
    \/ TriggerSweep
    \/ SweepDelete
    \/ SweepVacuum
    \/ Elapse

SpecSweeps == InitRetention /\ [][NextSweeps]_vars

(***************************************************************************)
(* The manager's background task.  Start creates the ticker and the        *)
(* goroutine, which waits in a select on the ticker's channel and on the   *)
(* stop channel; Stop stops the ticker and closes the stop channel without *)
(* waiting for the goroutine.  arm.C is the number of ticks waiting in the *)
(* ticker's channel (its buffer holds one), arm.task is where the          *)
(* goroutine stands.  Intervals are in minutes.                            *)
(***************************************************************************)

\* The configurations a daemon is started with: --check-mins is any integer,
\* --disable-auto clears Enabled.
ManagerConfigs ==
    [MaxLogs : {1}, MaxAge : {0}, MaxSizeBytes : {0}, Enabled : BOOLEAN,
     CheckInterval : {0, 1, DefaultCheckInterval}]

\* NewAutoRetentionManager: the config as given, no ticker yet, the stop
\* channel made.  async says how the build's runtime treats a tick that is
\* already in the channel when the ticker is stopped: left there for the
\* receiver (toolchains and go.mod versions before 1.23) or withdrawn.
NewAutoRetentionManager(async) ==
    [ticker |-> "nil", interval |-> 0, C |-> 0, async |-> async, stop |-> "open",
     task |-> "none", panic |-> ""]

\* time.NewTicker: panics on a non-positive interval.
NewTicker(m, d) ==
    IF d <= 0
    THEN [m EXCEPT !.panic = "non-positive interval for NewTicker"]
    ELSE [m EXCEPT !.ticker = "running", !.interval = d]

InitManager ==
    /\ alert_rules = <<>>
    /\ alert_instances = <<>>
    /\ notification_channels = <<>>
    /\ alert_notifications = <<>>
    /\ engine = "none"
    /\ rules = <<>>
    /\ channels = <<>>
    /\ isRunning = FALSE
    /\ loops = 0
    /\ pending = {}
    /\ stopping = FALSE
    /\ now = TicksPerSecond
    /\ call = [op |-> "NewAutoRetentionManager"]
    /\ logs = {}
    /\ nextLogId = 1
    /\ sweeps = Idle
    /\ config \in ManagerConfigs
    /\ \E async \in BOOLEAN : arm = NewAutoRetentionManager(async)

\* AutoRetentionManager.Start.
ManagerStart ==
    /\ arm.panic = ""
    /\ arm.task = "none"
    /\ arm.stop = "open"
    /\ arm' = IF ~config.Enabled
              THEN arm
              ELSE LET m == NewTicker(arm, config.CheckInterval)
                   IN  IF m.panic # "" THEN m ELSE [m EXCEPT !.task = "select"]
    /\ call' = [op |-> "arm.Start", enabled |-> config.Enabled,
                interval |-> config.CheckInterval]
    /\ UNCHANGED <<storeVars, engineVars, logs, nextLogId, config, sweeps, now>>

\* The runtime sends a tick; one that finds the buffer full is dropped.
Tick ==
    /\ arm.panic = ""
    /\ arm.ticker = "running"
    /\ arm.C = 0
    /\ arm' = [arm EXCEPT !.C = 1]
    /\ call' = [op |-> "tick"]
    /\ UNCHANGED <<storeVars, engineVars, logs, nextLogId, config, sweeps, now>>

\* case <-arm.ticker.C: the select may take this case whenever a tick is
\* waiting, whether or not the stop channel is closed too.
TickReceived ==
    /\ arm.panic = ""
    /\ arm.task = "select"
    /\ arm.C = 1
    /\ arm' = [arm EXCEPT !.C = 0, !.task = "cleanup"]
    /\ call' = [op |-> "case tick", stop |-> arm.stop]
    /\ UNCHANGED <<storeVars, engineVars, logs, nextLogId, config, sweeps, now>>

\* arm.performCleanup() returns and the loop is back at its select.
CleanupReturns ==
    /\ arm.panic = ""
    /\ arm.task = "cleanup"
    /\ \E in \in CleanupInputs :
          \E after \in performCleanup(logs, config, now, in) :
              /\ logs' = after
              /\ call' = [op |-> "cleanup", deleted |-> Cardinality(logs \ after),
                          stop |-> arm.stop]
    /\ arm' = [arm EXCEPT !.task = "select"]
    /\ UNCHANGED <<storeVars, engineVars, nextLogId, config, sweeps, now>>

\* case <-arm.stop: return.
StopSeen ==
    /\ arm.panic = ""
    /\ arm.task = "select"
    /\ arm.stop = "closed"
    /\ arm' = [arm EXCEPT !.task = "exited"]
    /\ call' = [op |-> "case stop", tick |-> arm.C]
    /\ UNCHANGED <<storeVars, engineVars, logs, nextLogId, config, sweeps, now>>

\* AutoRetentionManager.Stop: returns without waiting for the goroutine.
\* Closing the channel a second time panics.
ManagerStop ==
    /\ arm.panic = ""
    /\ arm' = IF arm.stop = "closed"
              THEN [arm EXCEPT !.panic = "close of closed channel"]
              ELSE [arm EXCEPT
                      !.ticker = IF arm.ticker = "nil" THEN "nil" ELSE "stopped",
                      !.C = IF arm.async THEN arm.C ELSE 0,
                      !.stop = "closed"]
    /\ call' = [op |-> "arm.Stop", task |-> arm.task, tick |-> arm.C]
    /\ UNCHANGED <<storeVars, engineVars, logs, nextLogId, config, sweeps, now>>

NextManager ==
    \/ ManagerStart
    \/ Tick
    \/ TickReceived
    \/ CleanupReturns
    \/ StopSeen
    \/ ManagerStop
    \/ InsertLog
    \/ Elapse

SpecManager == InitManager /\ [][NextManager]_vars

(***************************************************************************)
(* Ingest: LogParser.ParseLine and the insert of its entry.  A timestamp   *)
(* as written in a line is its form and the instant it names:              *)
(*   "zoned"    2023-08-06T10:30:45Z          (RFC 3339)                   *)
(*   "local"    2023-08-06 10:30:45                                        *)
(*   "fraction" 2023-08-06 10:30:45.123                                    *)
(*   "range"    2023-13-45 10:30:45           (digits in place, no date)   *)
(*   "other"    yesterday                                                  *)
(***************************************************************************)

Forms == {"zoned", "local", "fraction", "range", "other"}
Stamps == [form : Forms, at : {1}] \cup [form : {"zoned", "local"}, at : {MaxLogTime}]

\* What a JSON object has under a key: nothing, a value that is not a
\* string, or a string.
JSONValues == {[form |-> "absent", at |-> 0], [form |-> "number", at |-> 0]} \cup Stamps

\* The lines ingest reads: a JSON object, a line that starts with some text
\* where a timestamp would stand, or a line that is neither.
Lines ==
    [kind : {"json"}, timestamp : JSONValues, time : JSONValues]
        \cup [kind : {"text"}, starts : Stamps]
        \cup {[kind |-> "plain"]}

\* time.Parse(time.RFC3339, ts).
ParseRFC3339(ts) ==
    IF ts.form = "zoned" THEN [err |-> FALSE, t |-> ts.at] ELSE [err |-> TRUE, t |-> ZeroTime]

\* time.Parse("2006-01-02T15:04:05", ts) after the blank is replaced by T: a
\* fraction after the seconds is accepted, a zone suffix is extra text.
ParseLocal(ts) ==
    IF ts.form \in {"local", "fraction"}
    THEN [err |-> FALSE, t |-> ts.at]
    ELSE [err |-> TRUE, t |-> ZeroTime]

\* The pattern of tryParseCommonFormat: digits in the places of a date and a
\* time, an optional fraction, an optional zone.
MatchesPattern(ts) == ts.form \in {"zoned", "local", "fraction", "range"}

IsString(v) == v.form \in Forms

\* tryParseJSON's timestamp; entry.Timestamp starts as the zero time.
tryParseJSON(line, t) ==
    IF IsString(line.timestamp)
    THEN IF ~ParseRFC3339(line.timestamp).err
         THEN ParseRFC3339(line.timestamp).t
         ELSE ZeroTime
    ELSE IF IsString(line.time)
         THEN IF ~ParseRFC3339(line.time).err
              THEN ParseRFC3339(line.time).t
              ELSE ZeroTime
         ELSE t

\* tryParseCommonFormat's timestamp: the error of time.Parse is dropped.
tryParseCommonFormat(line) == ParseLocal(line.starts).t

\* ParseLine's Timestamp, at wall-clock time t.
ParseLine(line, t) ==
    IF line.kind = "json" THEN tryParseJSON(line, t)
    ELSE IF line.kind = "text" /\ MatchesPattern(line.starts)
         THEN tryParseCommonFormat(line)
         ELSE t

\* One line read, parsed and stored.
Ingest ==
    /\ Cardinality(logs) < MaxLines
    /\ \E line \in Lines :
          /\ logs' = logs \cup {[id |-> nextLogId, timestamp |-> ParseLine(line, now)]}
          /\ call' = [op |-> "ParseLine", line |-> line,
                      Timestamp |-> ParseLine(line, now)]
    /\ nextLogId' = nextLogId + 1
    /\ UNCHANGED <<storeVars, engineVars, config, arm, sweeps, now>>

NextIngest ==
    \/ Ingest
    \/ Elapse

\* The store is opened and the parser made; no retention policy matters here.
InitIngest ==
    /\ InitRetention
    /\ config = DefaultRetentionConfig

SpecIngest == InitIngest /\ [][NextIngest]_vars


(***************************************************************************)
(* A rule evaluated over the log table, with the retention manager at      *)
(* work on the same table.                                                 *)
(***************************************************************************)
\* The words of the rule queries evaluated here: Logs stands for
\* SELECT COUNT(*) FROM logs, Error for level = 'error', Fatal for
\* level = 'fatal'.
Logs == <<"l", "o", "g", "s">>
Error == <<"e", "r", "r", "o", "r">>
Fatal == <<"f", "a", "t", "a", "l">>
OR == <<"O", "R">>
AND == <<"A", "N", "D">>

\* The condition buildTimeQuery appends: timestamp >= 'since'.
Since == <<"t", "s", ">", "=">>

\* The queries of the rules evaluated here.
WindowQueries ==
    {Join(<<Logs>>),
     Join(<<Logs, WHERE, Error>>),
     Join(<<Logs, WHERE, Error, OR, Fatal>>),
     Join(<<Logs, WHERE, Fatal, OR, Error>>)}

\* The words of a text, split at its spaces.
RECURSIVE Split(_)
Split(str) ==
    IF str = <<>> THEN <<>>
    ELSE LET i == CHOOSE k \in 1..(Len(str) + 1) :
                      /\ \A j \in 1..(k - 1) : str[j] # " "
                      /\ k = Len(str) + 1 \/ str[k] = " "
         IN <<SubSeq(str, 1, i - 1)>> \o Split(SubSeq(str, i + 1, Len(str)))

\* The statement QueryRow is handed: the rule's query followed by the
\* connector and the condition buildTimeQuery appended, word by word.
Statement(timeQuery) ==
    Split(timeQuery.query)
        \o <<IF timeQuery.clause = " WHERE timestamp >= " THEN WHERE ELSE AND, Since>>

\* One condition of a WHERE clause on one row; the appended one compares the
\* stored text with the text of the cutoff.
Condition(word, row, since) ==
    CASE word = Error -> row.level = "error"
      [] word = Fatal -> row.level = "fatal"
      [] word = Since -> ~OlderThan(row, since)
      [] OTHER -> FALSE

\* SQL's precedence: AND binds its two neighbours before OR does.
Conjunction(expr, row, since) ==
    \A i \in 1..Len(expr) : expr[i] = AND \/ Condition(expr[i], row, since)

RECURSIVE Disjunction(_, _, _)
Disjunction(expr, row, since) ==
    LET ors == {i \in 1..Len(expr) : expr[i] = OR}
    IN IF ors = {} THEN Conjunction(expr, row, since)
       ELSE LET i == CHOOSE k \in ors : \A j \in ors : k <= j
            IN \/ Conjunction(SubSeq(expr, 1, i - 1), row, since)
               \/ Disjunction(SubSeq(expr, i + 1, Len(expr)), row, since)

\* The rows of L the statement counts.
SelectRows(timeQuery, L) ==
    LET stmt == Statement(timeQuery)
        w == CHOOSE k \in 1..Len(stmt) : stmt[k] = WHERE
    IN {row \in L : Disjunction(SubSeq(stmt, w + 1, Len(stmt)), row, timeQuery.since)}

\* The log tables evaluated here: rows 1..n, every row an error or an info
\* line with a timestamp of its own.
RECURSIVE TablesOf(_)
TablesOf(n) ==
    IF n = 0 THEN {{}}
    ELSE {T \cup {[id |-> n, timestamp |-> ts, level |-> level]} :
             T \in TablesOf(n - 1), ts \in 0..MaxWindowTime, level \in {"error", "info"}}

LogTables == UNION {TablesOf(n) : n \in 0..MaxWindowRows}

\* One enabled rule with a window of one second, a table of log rows, and
\* the retention manager with a count or an age policy.
InitWindow ==
    /\ alert_rules = <<>>
    /\ alert_instances = <<>>
    /\ notification_channels = <<>>
    /\ alert_notifications = <<>>
    /\ engine = "up"
    /\ \E query \in WindowQueries :
          rules = <<[NewRule("errors", query, MaxThreshold, TRUE) EXCEPT !.ID = 1]
                        @@ [Window |-> <<"1", "s">>]>>
    /\ channels = <<>>
    /\ isRunning = FALSE
    /\ loops = 0
    /\ pending = {}
    /\ stopping = FALSE
    /\ now = TicksPerSecond
    /\ call = [op |-> "NewStorage"]
    /\ logs \in LogTables
    /\ nextLogId = Cardinality(logs) + 1
    /\ sweeps = Idle
    /\ config \in {c \in RetentionConfigs : c.MaxSizeBytes = 0}
    /\ arm = NoManager

\* evaluateRule up to its comparison with the threshold, the count taken
\* from the log table; swept are the rows a sweep removed just before.
EvaluateOverLogs ==
    /\ engine = "up"
    /\ \E r \in DOMAIN rules :
          LET timeQuery == buildTimeQuery(rules[r].Query, rules[r].Window, now)
              counted == SelectRows(timeQuery, logs)
          IN call' = [op |-> "evaluateRule", id |-> r, since |-> timeQuery.since,
                      counted |-> counted, count |-> Cardinality(counted),
                      fires |-> ThresholdExceeded(Cardinality(counted), rules[r].Threshold),
                      swept |-> IF call.op \in SweepOps THEN call.removed ELSE {}]
    /\ UNCHANGED <<storeVars, engineVars, retentionVars, now>>

\* Time passes.
ElapseWindow ==
    /\ now < MaxWindowTime
    /\ now' = now + 1
    /\ call' = [op |-> "clock"]
    /\ UNCHANGED <<storeVars, engineVars, retentionVars>>

NextWindow ==
    \/ EvaluateOverLogs
    \/ DoPerformCleanup
    \/ ElapseWindow

SpecWindow == InitWindow /\ [][NextWindow]_vars


(***************************************************************************)
(* One notification attempt: the transport call and its audit row.         *)
(* Durations are in seconds.                                               *)
(***************************************************************************)
\* 30 * time.Second
DefaultTimeout == 30

\* What the script of a shell channel does when run: how long it takes and
\* whether it exits with status 0.
Scripts == [runtime : {0, 3, 10, 45, 100}, exitOk : BOOLEAN]

\* What the remote end of a webhook does with a request.
Remotes == {"200", "500", "silent"}

\* The channels an alert is sent to here: scripts with the timeout left out,
\* given as a duration, and given as the number of seconds the web form
\* stores; a script channel without script_path; a webhook.
DispatchChannels ==
    {[NewChannel("hook", "shell", cfg, TRUE) EXCEPT !.ID = 1] :
        cfg \in {[script_path |-> <<"/">>],
                 [script_path |-> <<"/">>, timeout |-> <<"1", "s">>],
                 [script_path |-> <<"/">>, timeout |-> <<"1", "m">>],
                 [script_path |-> <<"/">>, timeout |-> <<"5">>],
                 [working_dir |-> <<"/">>]}}
    \cup {[NewChannel("ops", "slack", [webhook_url |-> <<"/">>], TRUE) EXCEPT !.ID = 1]}

\* The timeout a channel's owner configured, in seconds: the web form asks
\* for "Timeout (seconds)" and stores the number as typed.
ConfiguredSeconds(cfg) ==
    IF "timeout" \notin DOMAIN cfg THEN DefaultTimeout
    ELSE IF \A i \in 1..Len(cfg.timeout) : IsDigit(cfg.timeout[i])
         THEN leadingInt(cfg.timeout, 0).v
         ELSE ParseDuration(cfg.timeout).d

\* sendShellNotification's timeout: the config's, when ParseDuration takes it.
shellTimeout(cfg) ==
    IF "timeout" \in DOMAIN cfg /\ ~ParseDuration(cfg.timeout).err
    THEN ParseDuration(cfg.timeout).d
    ELSE DefaultTimeout

\* NewShellNotification: a zero timeout becomes the default.
NewShellNotification(timeout) == IF timeout = 0 THEN DefaultTimeout ELSE timeout

\* executeWithTimeout: the select takes whichever of the script's end and the
\* timer comes first, and either when they come together; on the timer the
\* process is killed.
executeWithTimeout(timeout, script) ==
    (IF script.runtime <= timeout
     THEN {[err |-> IF script.exitOk THEN "" ELSE "script execution failed",
            killed |-> FALSE, elapsed |-> script.runtime]}
     ELSE {})
    \cup (IF script.runtime >= timeout
          THEN {[err |-> "script execution timed out", killed |-> TRUE,
                 elapsed |-> timeout]}
          ELSE {})

\* sendShellNotification: the ways it can return.
sendShellNotification(channel, script) ==
    IF "script_path" \notin DOMAIN channel.Config
    THEN {[err |-> "shell channel missing script_path in config", killed |-> FALSE,
           elapsed |-> 0]}
    ELSE executeWithTimeout(NewShellNotification(shellTimeout(channel.Config)), script)

\* sendSlackWebhook: http.Post through the default client, which sets no
\* timeout; it returns when the remote end answers.
sendSlackWebhook(remote) ==
    CASE remote = "200" -> {[err |-> "", killed |-> FALSE, elapsed |-> 0]}
      [] remote = "500" -> {[err |-> "Slack webhook returned status", killed |-> FALSE,
                             elapsed |-> 0]}
      [] remote = "silent" -> {}

\* sendSlackNotification: the ways it can return.
sendSlackNotification(channel, remote) ==
    IF "webhook_url" \notin DOMAIN channel.Config
    THEN {[err |-> "slack channel missing webhook_url in config", killed |-> FALSE,
           elapsed |-> 0]}
    ELSE sendSlackWebhook(remote)

\* The ways the transport of a channel can return.
TransportReturns(channel, script, remote) ==
    CASE channel.Type = "shell" -> sendShellNotification(channel, script)
      [] channel.Type = "slack" -> sendSlackNotification(channel, remote)

\* fireAlert has stored instance 1 and is about to notify the one enabled
\* channel.
InitDispatch ==
    /\ alert_rules = <<>>
    /\ alert_instances = <<>>
    /\ notification_channels = <<>>
    /\ alert_notifications = <<>>
    /\ engine = "up"
    /\ rules = <<>>
    /\ \E channel \in DispatchChannels : channels = <<channel>>
    /\ isRunning = TRUE
    /\ loops = 1
    /\ pending = {}
    /\ stopping = FALSE
    /\ now = TicksPerSecond
    /\ \E script \in Scripts, remote \in Remotes :
          call = [op |-> "fireAlert", alert |-> 1, script |-> script, remote |-> remote]
    /\ logs = {}
    /\ nextLogId = 1
    /\ sweeps = Idle
    /\ config = DefaultRetentionConfig
    /\ arm = NoManager

\* sendNotification calls the transport of the channel.
CallTransport ==
    /\ call.op = "fireAlert"
    /\ call' = [call EXCEPT !.op = "sendNotification"]
    /\ UNCHANGED <<storeVars, engineVars, retentionVars, now>>

\* The transport returns and logNotification writes the audit row, which
\* the store accepts here.
TransportReturned ==
    /\ call.op = "sendNotification"
    /\ \E out \in TransportReturns(channels[1], call.script, call.remote) :
          /\ alert_notifications' =
                 logNotification(World, call.alert, 1, out.err = "", TRUE).alert_notifications
          /\ call' = [call EXCEPT !.op = "logNotification"] @@ [out |-> out]
    /\ UNCHANGED <<alert_rules, alert_instances, notification_channels, engineVars,
                   retentionVars, now>>

NextDispatch ==
    \/ CallTransport
    \/ TransportReturned

\* A transport that can return does return.
SpecDispatch == InitDispatch /\ [][NextDispatch]_vars /\ WF_vars(NextDispatch)


(***************************************************************************)
(* Properties.                                                             *)
(***************************************************************************)
\* The audit rows of alert a.
RowsOf(a) == {i \in 1..Len(alert_notifications) : alert_notifications[i].alert_id = a}

\* The last operation was an evaluation that fired.
Fired == call.op = "evaluateRule" /\ call.alert # 0

\* C1: every fire leaves, for its alert instance, exactly one row of
\* alert_notifications per enabled channel of the cache and none for a
\* disabled one, whatever the transports reported.
C1_OneRowPerEnabledChannel ==
    Fired =>
        /\ Cardinality(RowsOf(call.alert)) = Cardinality(EnabledChannels(World))
        /\ \A c \in DOMAIN channels :
              Cardinality({i \in RowsOf(call.alert) : alert_notifications[i].channel_id = c})
                  = IF channels[c].Enabled THEN 1 ELSE 0

\* C2: every row of alert_instances has count >= threshold, the threshold
\* being that of the rule that fired.
C2_InstanceCountAtLeastThreshold ==
    \A i \in 1..Len(alert_instances) :
        /\ alert_instances[i].count >= alert_instances[i].threshold
        /\ alert_instances[i].threshold = alert_rules[alert_instances[i].rule_id].threshold

\* C2's case: an instance is stored, and an evaluation that counted fewer
\* rows than the threshold has just stored none.
C2_Witness ==
    /\ Len(alert_instances) >= 1
    /\ call.op = "evaluateRule" /\ ~call.err /\ call.alert = 0
    /\ call.res.count < rules[call.id].Threshold

\* C3: per rule_id, fired_at never decreases in insertion order.
C3_FiredAtMonotonePerRule ==
    \A i, j \in 1..Len(alert_instances) :
        (i < j /\ alert_instances[i].rule_id = alert_instances[j].rule_id)
            => alert_instances[i].fired_at <= alert_instances[j].fired_at

\* C3's case: one rule has fired on two ticks, the second at a later time.
C3_Witness ==
    \E i, j \in 1..Len(alert_instances) :
        /\ i < j
        /\ alert_instances[i].rule_id = alert_instances[j].rule_id
        /\ alert_instances[i].fired_at < alert_instances[j].fired_at

\* The last operation was a sweep that deleted rows.
Swept == call.op \in SweepOps /\ call.deleted > 0

\* C4: after a sweep that deleted rows, every enabled policy holds: at most
\* MaxLogs rows when MaxLogs > 0, and no row older than the cutoff when
\* MaxAge > 0.
C4_SweepSatisfiesEveryPolicy ==
    Swept =>
        /\ config.MaxLogs > 0 => Cardinality(logs) <= config.MaxLogs
        /\ config.MaxAge > 0 => \A row \in logs : ~OlderThan(row, Cutoff(config, now))

\* C5: an evaluation whose query failed fires nothing, still sets the rule's
\* last_check to the time of the evaluation, and leaves the rule enabled.
C5_FailedEvaluationAdvancesLastCheck ==
    (call.op = "evaluateRule" /\ call.res.err) =>
        /\ call.alert = 0
        /\ rules[call.id].LastCheck = now
        /\ rules[call.id].Enabled

\* C6: in a fire, the dispatcher is invoked for every enabled channel (and
\* only for those), whichever of the invocations fail.
C6_FailureDoesNotStopFanOut ==
    Fired =>
        /\ {d.channel : d \in call.dispatched} = EnabledChannels(World)
        /\ \A d \in call.dispatched : d.alert = call.alert

\* C6's case: a fire over two enabled channels in which a dispatch failed.
C6_Witness ==
    /\ Fired
    /\ Cardinality(call.dispatched) >= 2
    /\ \E d \in call.dispatched : ~d.ok

\* A channel whose config lacks a key its kind requires.
MissingRequiredKey(channel) == ~(RequiredKeys(channel.Type) \subseteq channel.Config)

\* C7: AddNotificationChannel rejects a channel whose config lacks a
\* required key, and leaves the cache and notification_channels as they were.
C7_IncompleteChannelRejected ==
    [][(call'.op = "AddNotificationChannel" /\ MissingRequiredKey(call'.in))
          => (call'.err /\ channels' = channels
              /\ notification_channels' = notification_channels)]_vars

\* C8: AddRule rejects a rule whose query has a bad SQL shape, and leaves the
\* rule cache as it was.
C8_BadQueryRejected ==
    [][(call'.op = "AddRule" /\ call'.in.Query = "bad")
          => (call'.err /\ rules' = rules)]_vars

\* C9: a startup that finds notification_channels empty leaves exactly one
\* channel, in the table and in the cache: type desktop, named "Desktop
\* Notifications", enabled; a startup that finds a channel adds none.
C9_DefaultChannelOnFirstStartup ==
    [][(call'.op = "NewEngine" /\ ~call'.err) =>
          IF notification_channels = <<>>
          THEN /\ Len(notification_channels') = 1
               /\ notification_channels'[1].name = "Desktop Notifications"
               /\ notification_channels'[1].type = "desktop"
               /\ notification_channels'[1].enabled
               /\ DOMAIN channels' = {1}
               /\ channels'[1].Name = "Desktop Notifications"
               /\ channels'[1].Type = "desktop"
               /\ channels'[1].Enabled
          ELSE notification_channels' = notification_channels]_vars

\* C9's case: the engine has started a second time on the store its first
\* startup put the default channel in, and that channel is still the only one.
C9_Witness ==
    /\ call.op = "NewEngine" /\ ~call.err /\ ~call.empty
    /\ Len(notification_channels) = 1
    /\ DOMAIN channels = {1}

\* C10: whenever the engine is stopped, a new engine on the same store would
\* load exactly the rules and channels the stopped one holds, field by field.
C10_RestartReloadsSameSets ==
    (engine = "up" /\ ~isRunning /\ pending = {}) =>
        LET reloaded == NewEngine(World, TRUE, TRUE).w
        IN reloaded.rules = rules /\ reloaded.channels = channels


\* C11: a sweep that directly follows a sweep whose statements all succeeded
\* (no insert and no clock step between the two) deletes no row, whatever
\* MaxLogs, MaxAge and MaxSizeBytes are.
C11_SecondSweepDeletesNothing ==
    [][(call.op \in SweepOps /\ call.ok /\ call'.op \in SweepOps)
          => (call'.deleted = 0 /\ logs' = logs)]_vars

\* C11's case: a sweep deleted rows, and the sweep right after it found
\* cleanup still called for, ran it and deleted nothing.
C11_Witness ==
    /\ call.op \in SweepOps
    /\ call.prev > 0
    /\ call.ran /\ call.ok
    /\ call.deleted = 0

\* The rows of L older than the age cutoff at time t.
OldRows(L, cfg, t) == {row \in L : OlderThan(row, Cutoff(cfg, t))}

\* C12: a sweep with MaxAge > 0 to which the count policy does not apply
\* (MaxLogs = 0, or no more than MaxLogs rows) and that finds rows older than
\* the cutoff deletes exactly those rows.
C12_AgeSweepDeletesOldRows ==
    [][(/\ call'.op \in SweepOps /\ call'.ok
        /\ config.MaxAge > 0
        /\ (config.MaxLogs = 0 \/ Cardinality(logs) <= config.MaxLogs)
        /\ OldRows(logs, config, now) # {})
          => logs' = logs \ OldRows(logs, config, now)]_vars

\* C13: a sweep with MaxLogs > 0 over more than MaxLogs rows leaves exactly
\* MaxLogs rows, none of them older (by timestamp) than a row it deleted, and
\* reports count_before - MaxLogs deleted rows.
C13_CountSweepKeepsNewest ==
    [][(/\ call'.op \in SweepOps /\ call'.ok
        /\ config.MaxLogs > 0
        /\ Cardinality(logs) > config.MaxLogs)
          => /\ logs' \subseteq logs
             /\ Cardinality(logs') = config.MaxLogs
             /\ call'.deleted = Cardinality(logs) - config.MaxLogs
             /\ \A k \in logs', d \in logs \ logs' : k.timestamp >= d.timestamp]_vars

\* C13's case: a count sweep deleted a row that was inserted after a row it
\* kept (larger id) but carries the older timestamp.
C13_Witness ==
    /\ call.op \in SweepOps /\ call.ok
    /\ config.MaxLogs > 0
    /\ Cardinality(logs) = config.MaxLogs
    /\ \E d \in call.removed, k \in logs : d.id > k.id /\ d.timestamp < k.timestamp


\* Goroutine p is inside performCleanup, past its early return.
Sweeping(p) == sweeps[p] \in {"delete", "vacuum"}

\* C14: at most one sweep executes at any time: a goroutine runs the DELETE
\* or the VACUUM of a sweep only while no other goroutine is inside one.
C14_SingleFlight ==
    [][\A p \in Tasks :
          (Sweeping(p) /\ sweeps'[p] # sweeps[p])
              => \A q \in Tasks \ {p} : ~Sweeping(q)]_vars


\* The operations of a tick: checkAlerts and what its loop does per rule.
TickOps == {"checkAlerts", "evaluateRule", "skip"}

\* C15: a Stop called while a tick is under way returns only when that tick
\* has visited every rule of its range (until then rules leave the range only
\* by being visited), and once Stop has returned the loop starts no tick and
\* no evaluation.
C15_StopWaitsAndEndsTheLoop ==
    [][/\ (stopping /\ ~stopping' /\ engine' = "up") => (pending = {} /\ ~isRunning')
       /\ (stopping /\ stopping' /\ pending \ pending' # {})
             => call'.op \in {"evaluateRule", "skip"}
       /\ call'.op \in TickOps => isRunning]_vars

\* C15's case: Stop is blocked on its send, and the evaluation that was under
\* way has fired and sent its notifications.
C15_Witness ==
    /\ stopping
    /\ Fired
    /\ call.dispatched # {}

\* C16: AddRule and AddNotificationChannel change the caches only while no
\* range of checkAlerts over them is under way.
C16_NoCacheWriteDuringTick ==
    [][(call'.op \in {"AddRule", "AddNotificationChannel"}
        /\ (rules' # rules \/ channels' # channels))
          => pending = {}]_vars

HasWhereToken(ws) == \E i \in 1..Len(ws) : ToUpper(ws[i]) = WHERE

\* C18: buildTimeQuery appends " AND timestamp >= ..." when the query has the
\* token WHERE in any letter case, and " WHERE timestamp >= ..." when it has
\* no WHERE token.
C18_ConnectorFollowsWhereToken ==
    call.op = "buildTimeQuery" =>
        call.out.clause = IF HasWhereToken(call.words)
                          THEN " AND timestamp >= " ELSE " WHERE timestamp >= "

\* The window string "5m".
FiveMinutes == <<"5", "m">>

\* C20: for a window ParseDuration rejects, buildTimeQuery returns what it
\* returns for the window "5m": the cutoff is now - 5 minutes.
C20_UnparsableWindowIsFiveMinutes ==
    (call.op = "buildTimeQuery" /\ ParseDuration(call.window).err) =>
        /\ call.out = buildTimeQuery(call.query, FiveMinutes, now)
        /\ call.out.since = (now - 5 * 60 * TicksPerSecond) \div TicksPerSecond

\* C20's case: a window that is not empty and not a duration (a number
\* without unit, an unknown unit, a unit without number) has been evaluated.
C20_Witness ==
    /\ call.op = "buildTimeQuery"
    /\ call.window \in {<<"5">>, <<"5", "x">>, <<"m">>, <<"5", "m", "1">>}
    /\ ParseDuration(call.window).err
    /\ call.out.since # buildTimeQuery(call.query, <<"1", "h">>, now).since

(***************************************************************************)
(* Zero disables a retention policy.                                       *)
(***************************************************************************)

C30_EvaluationStampsCacheAndStore ==
    [][(call'.op = "evaluateRule" /\ ~call'.err) =>
          LET r == call'.id
          IN /\ rules'[r].LastCheck = now'
             /\ alert_rules'[r].last_check = now'
             /\ IF call'.alert # 0
                THEN /\ rules'[r].LastAlert = now'
                     /\ alert_rules'[r].last_alert = now'
                ELSE /\ alert_instances' = alert_instances
                     /\ rules'[r].LastAlert = rules[r].LastAlert
                     /\ alert_rules'[r].last_alert = alert_rules[r].last_alert]_vars

(***************************************************************************)
(* Errors inside a tick.                                                   *)
(***************************************************************************)

\* C23: an evaluation that ends in an error changes nothing of any other
\* rule, leaves every rule the tick has not visited yet to be visited, and
\* leaves the monitor loop running; only Stop (or the end of the process)
\* ends the loop.
C23_ErrorAbortsOnlyThatRule ==
    [][/\ (call'.op = "evaluateRule" /\ call'.err) =>
             /\ pending' = pending \ {call'.id}
             /\ isRunning /\ isRunning' /\ engine' = "up"
             /\ \A q \in DOMAIN rules \ {call'.id} :
                    rules'[q] = rules[q] /\ alert_rules'[q] = alert_rules[q]
       /\ (isRunning /\ ~isRunning') => call'.op \in {"stopped", "exit"}]_vars

\* An evaluation has just failed while the same tick still has an enabled
\* rule to visit, and the loop is running.
C23_Witness ==
    /\ call.op = "evaluateRule" /\ call.err
    /\ isRunning
    /\ \E q \in pending : rules[q].Enabled

(***************************************************************************)
(* Startup on a store that is already in use.                              *)
(***************************************************************************)

C24_IncompleteChannelLoadedDisabled ==
    /\ (call.op = "NewEngine" /\ ~call.err) =>
           \A c \in DOMAIN channels :
               MissingRequiredKey(channels[c]) => ~channels[c].Enabled
    /\ (call.op = "evaluateRule" /\ engine = "up") =>
           \A d \in call.dispatched :
               d.channel \in DOMAIN channels => ~MissingRequiredKey(channels[d.channel])

(***************************************************************************)
(* One monitor loop.                                                       *)
(***************************************************************************)

\* C22: whatever Start and Stop calls have been made, at most one monitor
\* loop is alive and a tick is under way only inside that one loop, so the
\* evaluations of a rule follow one another.
C22_OneMonitorLoop ==
    /\ loops <= 1
    /\ pending # {} => loops = 1

\* Start has been called on an engine whose loop is alive and has fired: the
\* call returned without a new loop.
C22_Witness ==
    /\ call.op = "Start" /\ ~call.started
    /\ loops = 1
    /\ alert_instances # <<>>

(***************************************************************************)
(* The window of an evaluation.                                            *)
(***************************************************************************)

\* The rows of L that satisfy the conditions the rule's own query names.
Matching(query, L) ==
    LET words == Split(query)
    IN {row \in L : \A i \in 1..Len(words) :
                        words[i] \in {Error, Fatal} =>
                            \E j \in 1..Len(words) : /\ words[j] \in {Error, Fatal}
                                                     /\ Condition(words[j], row, 0)}

\* C21: the rows an evaluation counts all carry a timestamp at or after the
\* second now - window, and the rule fires only when the rows of the window
\* that its query matches reach the threshold.
C21_CountsOnlyRowsInTheWindow ==
    call.op = "evaluateRule" =>
        /\ \A row \in call.counted : ~OlderThan(row, call.since)
        /\ call.fires =>
               Cardinality({row \in Matching(rules[call.id].Query, logs) :
                               ~OlderThan(row, call.since)}) >= rules[call.id].Threshold

\* C28: when the sweep that ran just before an evaluation removed only rows
\* older than the rule's window, the evaluation counts what it would have
\* counted over the table with those rows still in it, and takes the same
\* decision.
C28_SweepDoesNotChangeTheCount ==
    (call.op = "evaluateRule" /\ \A row \in call.swept : OlderThan(row, call.since)) =>
        LET timeQuery == buildTimeQuery(rules[call.id].Query, rules[call.id].Window, now)
            unswept == Cardinality(SelectRows(timeQuery, logs \cup call.swept))
        IN /\ call.count = unswept
           /\ call.fires = ThresholdExceeded(unswept, rules[call.id].Threshold)

(***************************************************************************)
(* Notification attempts and time.                                         *)
(***************************************************************************)

\* C26: the attempt on a script channel whose script runs longer than the
\* configured timeout ends at that timeout with the script killed and an
\* error that names the timeout, and leaves exactly one attempt row, with
\* success = false.
C26_ScriptKilledAtConfiguredTimeout ==
    (/\ call.op = "logNotification"
     /\ channels[1].Type = "shell"
     /\ "script_path" \in DOMAIN channels[1].Config
     /\ call.script.runtime > ConfiguredSeconds(channels[1].Config)) =>
        /\ call.out.err = "script execution timed out"
        /\ call.out.killed
        /\ call.out.elapsed = ConfiguredSeconds(channels[1].Config)
        /\ Len(alert_notifications) = 1
        /\ ~alert_notifications[1].success

\* C27: every call of a transport returns.
C27_EveryDispatchReturns ==
    (call.op = "sendNotification") ~> (call.op = "logNotification")

(***************************************************************************)
(* Disabled rules.                                                         *)
(***************************************************************************)

\* C31: no step evaluates a rule that is disabled in the engine's cache: its
\* cache entry and its row of alert_rules (last_check and last_alert among
\* them) stay as they are and no alert instance is created for it.
C31_DisabledRuleNeverEvaluated ==
    [][\A q \in DOMAIN rules \cap DOMAIN rules' :
          ~rules[q].Enabled =>
              /\ ~(call'.op = "evaluateRule" /\ call'.id = q)
              /\ rules'[q] = rules[q]
              /\ alert_rules'[q] = alert_rules[q]
              /\ \A i \in (Len(alert_instances) + 1)..Len(alert_instances') :
                     alert_instances'[i].rule_id # q]_vars

\* A tick has just skipped a disabled rule that no evaluation has touched,
\* on an engine that has fired for another rule.
C31_Witness ==
    /\ call.op = "skip"
    /\ ~rules[call.id].Enabled
    /\ rules[call.id].LastCheck = ZeroTime
    /\ alert_instances # <<>>

(***************************************************************************)
(* Thresholds.                                                             *)
(***************************************************************************)

\* C32: every rule in the cache and every row of alert_rules has a
\* threshold of at least 1, and no alert instance records a count of 0.
C32_ThresholdAtLeastOne ==
    /\ \A r \in DOMAIN rules : rules[r].Threshold >= 1
    /\ \A r \in DOMAIN alert_rules : alert_rules[r].threshold >= 1
    /\ \A i \in DOMAIN alert_instances : alert_instances[i].count >= 1

(***************************************************************************)
(* Compaction after a sweep.                                               *)
(***************************************************************************)

\* C33: a sweep runs VACUUM when, and only when, it deleted at least one
\* row; when the VACUUM fails the rows the sweep deleted stay deleted.
C33_VacuumAfterDeletion ==
    [][call'.op \in SweepOps =>
          /\ call'.deleted = Cardinality(logs \ logs')
          /\ call'.deleted > 0 <=> call'.vacuum \in {"done", "failed"}
          /\ call'.deleted = 0 <=> call'.vacuum = "none"
          /\ logs' = logs \ call'.removed]_vars

\* The sweep before this one deleted rows and its VACUUM failed; this sweep
\* has run all the same.
C33_Witness ==
    /\ call.op \in SweepOps
    /\ call.prev > 0 /\ call.pvac = "failed"
    /\ call.ran

(***************************************************************************)
(* The retention manager's shutdown and start.                             *)
(***************************************************************************)

\* C34: once Stop has been called on the retention manager, its background
\* task starts no new sweep: a sweep under way finishes, and the task's only
\* other step is to exit.  This holds also when a tick was waiting at the
\* moment of the Stop.
C34_NoSweepStartsAfterStop ==
    [][(arm.stop = "closed" /\ arm'.task # arm.task) =>
          \/ arm.task = "cleanup" /\ arm'.task = "select"
          \/ arm.task = "select" /\ arm'.task = "exited"]_vars

\* C35: a manager started with Enabled true and a zero CheckInterval runs
\* with the default interval of ten minutes.
C35_ZeroIntervalMeansDefault ==
    (call.op = "arm.Start" /\ call.enabled /\ call.interval = 0) =>
        /\ arm.panic = ""
        /\ arm.ticker = "running"
        /\ arm.interval = DefaultCheckInterval
        /\ arm.task = "select"

(***************************************************************************)
(* Timestamps of ingested records.                                         *)
(***************************************************************************)

\* The timestamp a line provides, when it provides one that can be parsed.
Provided(line) ==
    CASE line.kind = "json" /\ ~ParseRFC3339(line.timestamp).err -> line.timestamp.at
      [] line.kind = "json" /\ ~ParseRFC3339(line.time).err -> line.time.at
      [] line.kind = "text" /\ ~ParseLocal(line.starts).err -> line.starts.at
      [] OTHER -> ZeroTime

\* C36: every record ingest stores has a timestamp that is not the zero
\* time; a line that provides no timestamp, or one that cannot be parsed,
\* gets the wall-clock time of its ingestion.
C36_TimestampNeverZero ==
    /\ \A row \in logs : row.timestamp # ZeroTime
    /\ (call.op = "ParseLine" /\ Provided(call.line) = ZeroTime) =>
           call.Timestamp = now

(***************************************************************************)
(* A fire whose instance cannot be stored.                                 *)
(***************************************************************************)

\* C37: when the insert of the alert instance fails, the fire is abandoned:
\* no transport is called, no alert_notifications row and no alert_instances
\* row is written, and the rule's last alert stays what it was in the cache
\* and in the store.  (An evaluation that read a count meeting the threshold
\* and returned an error is one whose saveAlertInstance failed.)
C37_FailedSaveAbandonsTheFire ==
    [][(/\ call'.op = "evaluateRule"
        /\ ~call'.res.err
        /\ ThresholdExceeded(call'.res.count, rules[call'.id].Threshold)
        /\ call'.err) =>
          /\ call'.dispatched = {}
          /\ call'.alert = 0
          /\ alert_notifications' = alert_notifications
          /\ alert_instances' = alert_instances
          /\ rules'[call'.id].LastAlert = rules[call'.id].LastAlert
          /\ alert_rules'[call'.id].last_alert = alert_rules[call'.id].last_alert]_vars

\* A fire was abandoned for a rule that has fired before, with an enabled
\* channel at hand.
C37_Witness ==
    /\ call.op = "evaluateRule"
    /\ call.err /\ ~call.res.err
    /\ ThresholdExceeded(call.res.count, rules[call.id].Threshold)
    /\ rules[call.id].LastAlert # ZeroTime
    /\ rules[call.id].LastAlert < rules[call.id].LastCheck
    /\ \E c \in DOMAIN channels : channels[c].Enabled

(***************************************************************************)
(* References between the tables.                                          *)
(***************************************************************************)

\* C38: every alert_notifications row names the id of a row of
\* alert_instances and the id of a row of notification_channels, and every
\* alert_instances row names the id of a row of alert_rules.
C38_ReferencesResolve ==
    /\ \A n \in DOMAIN alert_notifications :
          /\ alert_notifications[n].alert_id \in DOMAIN alert_instances
          /\ alert_notifications[n].channel_id \in DOMAIN notification_channels
    /\ \A i \in DOMAIN alert_instances :
          alert_instances[i].rule_id \in DOMAIN alert_rules

\* Attempts on two channels are on record for an alert that is not the first.
C38_Witness ==
    \E m, n \in DOMAIN alert_notifications :
        /\ alert_notifications[m].channel_id # alert_notifications[n].channel_id
        /\ alert_notifications[m].alert_id = alert_notifications[n].alert_id
        /\ alert_notifications[m].alert_id > 1

(***************************************************************************)
(* The caches and the tables.                                              *)
(***************************************************************************)

\* C39: while an engine is up, its rule cache holds exactly the ids and
\* names of the alert_rules rows and its channel cache those of the
\* notification_channels rows; names are unique in both tables; an add that
\* returns an error changes no cache and no table.
C39_CachesMatchTheStore ==
    [][/\ engine' = "up" =>
             /\ DOMAIN rules' = DOMAIN alert_rules'
             /\ \A r \in DOMAIN rules' :
                    rules'[r].ID = r /\ rules'[r].Name = alert_rules'[r].name
             /\ DOMAIN channels' = DOMAIN notification_channels'
             /\ \A c \in DOMAIN channels' :
                    channels'[c].ID = c /\ channels'[c].Name = notification_channels'[c].name
       /\ \A i, j \in DOMAIN alert_rules' :
             i # j => alert_rules'[i].name # alert_rules'[j].name
       /\ \A i, j \in DOMAIN notification_channels' :
             i # j => notification_channels'[i].name # notification_channels'[j].name
       /\ (call'.op \in {"AddRule", "AddNotificationChannel"} /\ call'.err) =>
             UNCHANGED <<rules, channels, storeVars>>]_vars

\* An add was rejected for its name, with rules and channels already held.
C39_Witness ==
    /\ call.op \in {"AddRule", "AddNotificationChannel"}
    /\ call.err
    /\ \E id \in DOMAIN (IF call.op = "AddRule" THEN rules ELSE channels) :
          (IF call.op = "AddRule" THEN rules ELSE channels)[id].Name = call.in.Name
    /\ rules # <<>>
    /\ Len(notification_channels) = MaxChannels

(***************************************************************************)
(* Stopping and restarting the engine.                                     *)
(***************************************************************************)

\* C40: a Stop that waits on a running engine returns in the end; a Stop on
\* an engine that is not running returns at once, leaving everything as it
\* was; a Start that follows a completed Stop leaves the engine running with
\* exactly one monitor loop, which is in its select.
C40_StopReturns ==
    /\ stopping ~> ~stopping
    /\ [][/\ (call'.op = "Stop" /\ ~isRunning) =>
                ~stopping' /\ UNCHANGED <<storeVars, engineVars>>
          /\ (call'.op = "Start" /\ call'.restart) =>
                isRunning' /\ loops' = 1 /\ pending' = {} /\ ~stopping']_vars

\* An engine that has evaluated a rule was stopped, the Stop returned, and
\* the engine was started again.
C40_Witness ==
    /\ call.op = "Start" /\ call.restart /\ call.started
    /\ isRunning /\ loops = 1
    /\ \E r \in DOMAIN rules : rules[r].LastCheck # ZeroTime

=============================================================================
